---- MODULE Spec2Model ----
(***************************************************************************)
(* The drag-and-drop project board: the ProjectState store (a singleton    *)
(* that owns the list of projects and notifies listeners), the two         *)
(* ProjectList columns that subscribe to it, the ProjectInput form and the *)
(* drag-and-drop handlers of ProjectItem / ProjectList.                    *)
(*                                                                         *)
(* Two source variants exist: src/unnamed/part_000 (the full board, with   *)
(* moveProject and the drag handlers) and src/src/app.ts (an earlier       *)
(* version: addProject only, ids built from Math.random.toString()).       *)
(*                                                                         *)
(* Objects are modelled with explicit references: heap[r] is the Project   *)
(* object with reference r, and every array (the store's projects, a       *)
(* snapshot, a column's assignedProjects) is a sequence of references, so  *)
(* that sharing of Project objects between arrays is visible.              *)
(***************************************************************************)
EXTENDS Integers, Sequences, FiniteSets, TLC

VARIABLES
    variant,     \* which source file runs: "part_000" or "app"
    heap,        \* the Project objects ever constructed, by reference
    projects,    \* ProjectState.projects: sequence of references
    listeners,   \* State.listeners: sequence of listener kinds
    assigned,    \* ProjectList.assignedProjects, per column type
    rendered,    \* the list items each column shows, per column type
    droppable,   \* whether each column's <ul> carries class 'droppable'
    drag,        \* the drag gesture in progress and its DataTransfer
    lastOp,      \* the most recent store operation and its notification round
    instance,    \* ProjectState.instance: a store reference, 0 for undefined
    constructed, \* how many ProjectState objects have been constructed
    returned     \* what the getInstance() calls returned, in the order of the calls

vars == <<variant, heap, projects, listeners, assigned, rendered, droppable, drag,
          lastOp, instance, constructed, returned>>

\* The singleton's bookkeeping.  projects and listeners are the fields of the
\* ProjectState object that ProjectState.instance refers to.
singleton == <<instance, constructed, returned>>

storeVars == <<heap, projects, listeners, assigned, rendered, lastOp>>

----------------------------------------------------------------------------
\* Bounds of the model.

MaxProjects == 2     \* addProject is called at most this many times
RandomValues == 2    \* Math.random() returns one of this many doubles
MaxListeners == 2    \* addListener is called at most this many times (SpecClient)
MaxGetInstance == 2  \* getInstance is called at most this many times (SpecInstance)

----------------------------------------------------------------------------
\* Project and ProjectStatus.

Active == 0
Finished == 1
ProjectStatus == {Active, Finished}

Project(id, title, description, numPeople, status) ==
    [id |-> id, title |-> title, description |-> description,
     numPeople |-> numPeople, status |-> status]

Variants == {"part_000", "app"}
ViewTypes == {"active", "finished"}

\* The status a column of the given type shows and drops into.
TypeStatus(type) == IF type = "active" THEN Active ELSE Finished

----------------------------------------------------------------------------
\* Identifiers.  Math.random() yields a double in [0,1); the model draws it
\* from the decimal fractions 0, 0.1, 0.2, ... and Number.prototype.toString
\* renders it.  Math.random.toString() (app.ts: no call parentheses) is the
\* source text of the function, the same string on every call.

MathRandom == 0 .. (RandomValues - 1)

NumberToString(tenths) == IF tenths = 0 THEN "0" ELSE "0." \o ToString(tenths)

FunctionToString == "function random() { [native code] }"

NewId(v, rnd) == IF v = "app" THEN FunctionToString ELSE NumberToString(rnd)

----------------------------------------------------------------------------
\* Text values are sequences of characters.

Trim(s) ==
    IF \A i \in 1 .. Len(s) : s[i] = " " THEN <<>>
    ELSE LET first == CHOOSE i \in 1 .. Len(s) :
                          s[i] # " " /\ \A j \in 1 .. (i - 1) : s[j] = " "
             last == CHOOSE i \in 1 .. Len(s) :
                          s[i] # " " /\ \A j \in (i + 1) .. Len(s) : s[j] = " "
         IN SubSeq(s, first, last)

DigitValue(c) ==
    CASE c = "0" -> 0 [] c = "1" -> 1 [] c = "2" -> 2 [] c = "3" -> 3
      [] c = "4" -> 4 [] c = "5" -> 5 [] c = "6" -> 6 [] c = "7" -> 7
      [] c = "8" -> 8 [] c = "9" -> 9

RECURSIVE DigitsValue(_)
DigitsValue(s) ==
    IF s = <<>> THEN 0
    ELSE 10 * DigitsValue(SubSeq(s, 1, Len(s) - 1)) + DigitValue(s[Len(s)])

\* Unary plus on a string of digits and blanks: the blank string is 0.
ToNumber(s) == DigitsValue(Trim(s))

----------------------------------------------------------------------------
\* Validation (interface Validatable, function validate).  An optional
\* property is a set: {} when it is undefined, {n} when it is n.  A value is
\* tagged with its typeof.

StringValue(s) == [type |-> "string", text |-> s, number |-> 0]

Validatable(value, required, minLength, maxLength, min, max) ==
    [value |-> value, required |-> required, minLength |-> minLength,
     maxLength |-> maxLength, min |-> min, max |-> max]

The(opt) == CHOOSE n \in opt : TRUE

\* value.toString().trim().length: a number never renders as a blank string.
TrimmedLength(value) ==
    IF value.type = "string" THEN Len(Trim(value.text)) ELSE 1

validate(v) ==
    /\ (v.required => TrimmedLength(v.value) # 0)
    /\ ((v.minLength # {} /\ v.value.type = "string")
            => Len(v.value.text) >= The(v.minLength))
    /\ ((v.maxLength # {} /\ v.value.type = "string")
            => Len(v.value.text) <= The(v.maxLength))
    /\ ((v.min # {} /\ v.value.type = "number") => v.value.number >= The(v.min))
    /\ ((v.max # {} /\ v.value.type = "number") => v.value.number <= The(v.max))

MinDescription == 5
MaxDescription == 500
MinPeople == 2
MaxPeople == 50

\* ProjectInput.gatherUserInput: the three fields are the input elements'
\* .value, all strings; the result is the tuple, or nothing after the alert.
gatherUserInput(enteredTitle, enteredDescription, enteredPeople) ==
    LET titleValidatable ==
            Validatable(StringValue(enteredTitle), TRUE, {}, {}, {}, {})
        descriptionValidatable ==
            Validatable(StringValue(enteredDescription), TRUE,
                        {MinDescription}, {MaxDescription}, {}, {})
        peopleValidatable ==
            Validatable(StringValue(enteredPeople), TRUE, {}, {},
                        {MinPeople}, {MaxPeople})
    IN IF /\ ~validate(titleValidatable)
          /\ ~validate(descriptionValidatable)
          /\ ~validate(peopleValidatable)
       THEN [isArray |-> FALSE, title |-> <<>>, description |-> <<>>, people |-> 0]
       ELSE [isArray |-> TRUE, title |-> enteredTitle,
             description |-> enteredDescription,
             people |-> ToNumber(enteredPeople)]

----------------------------------------------------------------------------
\* Arrays during one store operation.  A round record carries the arrays
\* alive during the operation (arrs[ProjectsArr] is this.projects, the later
\* ones are the arrays handed to listeners), the heap, the listeners and the
\* columns' state, the log of listener calls, and whether an exception is
\* propagating.

ProjectsArr == 1

Round(h, ps, ls, as, rd) ==
    [arrs |-> <<ps>>, heap |-> h, listeners |-> ls, assigned |-> as,
     rendered |-> rd, calls |-> <<>>, thrown |-> FALSE]

Deref(h, refs) == [i \in 1 .. Len(refs) |-> h[refs[i]]]

\* The array itself passed on, no copy made.
SliceAlias(r, a) == [r |-> r, arr |-> a]

\* Array.prototype.slice(): a new array holding the same element references.
Slice(r, a) ==
    [r |-> [r EXCEPT !.arrs = Append(@, r.arrs[a])], arr |-> Len(r.arrs) + 1]

\* A filter that collects the matching elements from the last to the first.
RECURSIVE FilterStatusBackwards(_, _, _)
FilterStatusBackwards(h, refs, status) ==
    IF refs = <<>> THEN <<>>
    ELSE LET rest == FilterStatusBackwards(h, Tail(refs), status)
         IN IF h[Head(refs)].status = status THEN rest \o <<Head(refs)>> ELSE rest

\* Array.prototype.filter(prj => prj.status === status).
RECURSIVE FilterStatus(_, _, _)
FilterStatus(h, refs, status) ==
    IF refs = <<>> THEN <<>>
    ELSE LET rest == FilterStatus(h, Tail(refs), status)
         IN IF h[Head(refs)].status = status THEN <<Head(refs)>> \o rest ELSE rest

\* ProjectItem.persons.
Persons(numPeople) ==
    IF numPeople = 1 THEN "1 person assigned"
    ELSE ToString(numPeople) \o " people assigned"

\* One rendered list item.  part_000 builds a ProjectItem that keeps the
\* Project reference and shows title, persons and description; app.ts builds
\* an <li> showing the title.
ListItem(v, h, ref) ==
    IF v = "app"
    THEN [project |-> 0, title |-> h[ref].title, persons |-> "",
          description |-> <<>>]
    ELSE [project |-> ref, title |-> h[ref].title,
          persons |-> Persons(h[ref].numPeople),
          description |-> h[ref].description]

\* ProjectList.renderProjects: empties the list and adds one item per
\* assigned project.
renderProjects(v, r, type) ==
    [r EXCEPT !.rendered[type] =
        [i \in 1 .. Len(r.assigned[type]) |-> ListItem(v, r.heap, r.assigned[type][i])]]

\* The listener a ProjectList registers in configure(): keeps the projects
\* of its own status, in the order of the array passed, and renders them.
ProjectListListener(v, type, r, a) ==
    LET relevantProjects == FilterStatus(r.heap, r.arrs[a], TypeStatus(type))
    IN renderProjects(v, [r EXCEPT !.assigned[type] = relevantProjects], type)

----------------------------------------------------------------------------
\* Listeners.  State.addListener accepts any function (items: T[]) => void.
\* The board registers the two ProjectList listeners; the other kinds are
\* client functions that write to what they are passed:
\*    "pop"        items => { items.pop() }
\*    "reverse"    items => { items.reverse() }
\*    "push"       items => { if (items.length) items.push(items[0]) }
\*    "setStatus"  items => { if (items.length) items[0].status = Finished }

ClientKinds == {"pop", "reverse", "push", "setStatus"}
ListenerKinds == ViewTypes \cup ClientKinds

Reverse(s) == [i \in 1 .. Len(s) |-> s[Len(s) + 1 - i]]

ClientListener(kind, r, a) ==
    LET items == r.arrs[a]
    IN CASE kind = "pop" ->
              [r EXCEPT !.arrs[a] = SubSeq(items, 1, Len(items) - 1)]
         [] kind = "reverse" ->
              [r EXCEPT !.arrs[a] = Reverse(items)]
         [] kind = "push" ->
              IF items = <<>> THEN r
              ELSE [r EXCEPT !.arrs[a] = Append(items, items[1])]
         [] kind = "setStatus" ->
              IF items = <<>> THEN r
              ELSE [r EXCEPT !.heap[items[1]].status = Finished]

\* Client functions that fail, or that register a listener from inside the
\* callback:
\*    "throw"     items => { throw new Error() }
\*    "register"  items => { if (!late) { late = () => {};
\*                                        projectState.addListener(late) } }
\*    "late"      the listener that "register" registers: () => {}
FaultKinds == {"throw", "register"}

FaultyListener(kind, r, a) ==
    CASE kind = "throw" -> [r EXCEPT !.thrown = TRUE]
      [] kind = "register" ->
           IF \E i \in 1 .. Len(r.listeners) : r.listeners[i] = "late" THEN r
           ELSE [r EXCEPT !.listeners = Append(@, "late")]
      [] kind = "late" -> r

\* Listener<T>: the call listenerFn(items).
CallListener(v, kind, r, a) ==
    IF kind \in ViewTypes THEN ProjectListListener(v, kind, r, a)
    ELSE IF kind \in ClientKinds THEN ClientListener(kind, r, a)
    ELSE FaultyListener(kind, r, a)

\* The record of one listener call: which listener, and the array it was
\* passed as it was at the call (its references and the objects' fields).
Call(i, kind, r, a) ==
    [listener |-> i, kind |-> kind, refs |-> r.arrs[a],
     items |-> Deref(r.heap, r.arrs[a])]

\* The listener loop, from the i-th listener on:
\*    for (const listenerFn of this.listeners) listenerFn(this.projects.slice())
\* The array iterator reads this.listeners.length at every step; an
\* exception thrown by a listener ends the loop and leaves the method.
RECURSIVE NotifyFrom(_, _, _)
NotifyFrom(v, r, i) ==
    IF r.thrown \/ i > Len(r.listeners) THEN r
    ELSE LET s == Slice(r, ProjectsArr)
             logged == [s.r EXCEPT !.calls =
                            Append(@, Call(i, r.listeners[i], s.r, s.arr))]
         IN NotifyFrom(v, CallListener(v, r.listeners[i], logged, s.arr), i + 1)

\* The listener loop run from the last listener to the first.
RECURSIVE NotifyBack(_, _, _)
NotifyBack(v, r, i) ==
    IF r.thrown \/ i < 1 THEN r
    ELSE LET s == Slice(r, ProjectsArr)
             logged == [s.r EXCEPT !.calls =
                            Append(@, Call(i, r.listeners[i], s.r, s.arr))]
         IN NotifyBack(v, CallListener(v, r.listeners[i], logged, s.arr), i - 1)

updateListenersBackwards(v, r) == NotifyBack(v, r, Len(r.listeners))

\* The listener loop with each call wrapped in try / catch.
RECURSIVE NotifyCatching(_, _, _)
NotifyCatching(v, r, i) ==
    IF i > Len(r.listeners) THEN r
    ELSE LET s == Slice(r, ProjectsArr)
             logged == [s.r EXCEPT !.calls =
                            Append(@, Call(i, r.listeners[i], s.r, s.arr))]
             called == CallListener(v, r.listeners[i], logged, s.arr)
         IN NotifyCatching(v, [called EXCEPT !.thrown = FALSE], i + 1)

updateListenersCatching(v, r) == NotifyCatching(v, r, 1)

\* The listener loop over a copy of the listeners made before the first call.
RECURSIVE NotifyFixed(_, _, _, _)
NotifyFixed(v, r, i, n) ==
    IF r.thrown \/ i > n THEN r
    ELSE LET s == Slice(r, ProjectsArr)
             logged == [s.r EXCEPT !.calls =
                            Append(@, Call(i, r.listeners[i], s.r, s.arr))]
         IN NotifyFixed(v, CallListener(v, r.listeners[i], logged, s.arr), i + 1, n)

updateListenersFixed(v, r) == NotifyFixed(v, r, 1, Len(r.listeners))

\* A loop that misses the first listener.
updateListenersSkipFirst(v, r) == NotifyFrom(v, r, 2)

\* ProjectState.updateListeners (part_000), the loop in addProject (app.ts).
updateListeners(v, r) == NotifyFrom(v, r, 1)

\* The record of one store operation: the call and its arguments, the
\* project it found or made, whether it notified, the listeners registered
\* at the call, the store's array and items right after the mutation, the
\* listener calls, whether the call ended by an exception, and whether the
\* store operation before it was the same call with the same arguments.
Op(name, id, status, found, notified, before, mutated, after) ==
    [op |-> name, id |-> id, status |-> status, found |-> found,
     notified |-> notified, registered |-> before.listeners,
     afterRefs |-> mutated.arrs[ProjectsArr],
     afterItems |-> Deref(mutated.heap, mutated.arrs[ProjectsArr]),
     calls |-> after.calls, thrown |-> after.thrown,
     repeated |-> (lastOp.op = name /\ lastOp.id = id /\ lastOp.status = status)]

NoOp == [op |-> "none", id |-> "", status |-> Active, found |-> 0,
         notified |-> FALSE, registered |-> <<>>, afterRefs |-> <<>>,
         afterItems |-> <<>>, calls |-> <<>>, thrown |-> FALSE,
         repeated |-> FALSE]

\* A store operation that puts the items and the array back as they were
\* before the call when a listener has thrown.
CommitOrRollBack(after, op) ==
    /\ heap' = IF after.thrown THEN heap ELSE after.heap
    /\ projects' = IF after.thrown THEN projects ELSE after.arrs[ProjectsArr]
    /\ listeners' = after.listeners
    /\ assigned' = after.assigned
    /\ rendered' = after.rendered
    /\ lastOp' = op

\* The store operation leaves the round record `after` behind.
Commit(after, op) ==
    /\ heap' = after.heap
    /\ projects' = after.arrs[ProjectsArr]
    /\ listeners' = after.listeners
    /\ assigned' = after.assigned
    /\ rendered' = after.rendered
    /\ lastOp' = op

\* Array.prototype.unshift in the place of push.
UnshiftProject(r, ref) == [r EXCEPT !.arrs[ProjectsArr] = <<ref>> \o @]

\* Array.prototype.push on this.projects.
PushProject(r, ref) == [r EXCEPT !.arrs[ProjectsArr] = Append(@, ref)]

\* ProjectState.addProject; rnd is what Math.random() returns.
addProject(title, description, numPeople, rnd) ==
    LET before == Round(heap, projects, listeners, assigned, rendered)
        newProject == Project(NewId(variant, rnd), title, description,
                              numPeople, Active)
        ref == Len(heap) + 1
        mutated == PushProject([before EXCEPT !.heap = Append(@, newProject)], ref)
        after == updateListeners(variant, mutated)
    IN Commit(after, Op("addProject", newProject.id, Active, ref, TRUE,
                        before, mutated, after))

\* Array.prototype.find(prj => prj.id === projectId): the first match, as a
\* reference; 0 stands for undefined.
Find(h, refs, projectId) ==
    IF \E i \in 1 .. Len(refs) : h[refs[i]].id = projectId
    THEN refs[CHOOSE i \in 1 .. Len(refs) :
                 /\ h[refs[i]].id = projectId
                 /\ \A j \in 1 .. (i - 1) : h[refs[j]].id # projectId]
    ELSE 0

\* The guard of moveProject: project && project.status !== newStatus.
MoveGuard(h, project, newStatus) ==
    project # 0 /\ h[project].status # newStatus

\* moveProject without the updateListeners() call.
moveProjectSilent(projectId, newStatus) ==
    LET before == Round(heap, projects, listeners, assigned, rendered)
        project == Find(heap, projects, projectId)
        mutated == IF MoveGuard(heap, project, newStatus)
                   THEN [before EXCEPT !.heap[project].status = newStatus]
                   ELSE before
    IN Commit(mutated, Op("moveProject", projectId, newStatus, project,
                          FALSE, before, mutated, mutated))

\* moveProject with updateListeners() placed after the if block.
moveProjectNotifyAlways(projectId, newStatus) ==
    LET before == Round(heap, projects, listeners, assigned, rendered)
        project == Find(heap, projects, projectId)
        mutated == IF MoveGuard(heap, project, newStatus)
                   THEN [before EXCEPT !.heap[project].status = newStatus]
                   ELSE before
        after == updateListeners(variant, mutated)
    IN Commit(after, Op("moveProject", projectId, newStatus, project,
                        TRUE, before, mutated, after))

\* moveProject that takes the project out of the array and pushes it again.
moveProjectToEnd(projectId, newStatus) ==
    LET before == Round(heap, projects, listeners, assigned, rendered)
        project == Find(heap, projects, projectId)
    IN IF MoveGuard(heap, project, newStatus)
       THEN LET others == SelectSeq(projects, LAMBDA ref : ref # project)
                mutated == [before EXCEPT !.heap[project].status = newStatus,
                                          !.arrs[ProjectsArr] = Append(others, project)]
                after == updateListeners(variant, mutated)
            IN Commit(after, Op("moveProject", projectId, newStatus, project,
                                TRUE, before, mutated, after))
       ELSE Commit(before, Op("moveProject", projectId, newStatus, project,
                              FALSE, before, before, before))

\* ProjectState.moveProject (part_000 only).
moveProject(projectId, newStatus) ==
    LET before == Round(heap, projects, listeners, assigned, rendered)
        project == Find(heap, projects, projectId)
    IN IF MoveGuard(heap, project, newStatus)
       THEN LET mutated == [before EXCEPT !.heap[project].status = newStatus]
                after == updateListeners(variant, mutated)
            IN Commit(after, Op("moveProject", projectId, newStatus, project,
                                TRUE, before, mutated, after))
       ELSE Commit(before, Op("moveProject", projectId, newStatus, project,
                              FALSE, before, before, before))

\* What a getInstance() call hands to its caller: the store reference, and
\* how many projects and listeners that store holds at the return.
Handle(ref, ps, ls) == [instance |-> ref, projects |-> Len(ps), listeners |-> Len(ls)]

\* new ProjectState(): the private constructor; the field initialisers give
\* the new object no listeners and no projects.
NewProjectState ==
    /\ constructed' = constructed + 1
    /\ instance' = constructed + 1
    /\ projects' = <<>>
    /\ listeners' = <<>>

\* getInstance without the if (this.instance) test.
getInstanceAlwaysNew ==
    /\ NewProjectState
    /\ returned' = Append(returned, Handle(instance', projects', listeners'))
    /\ UNCHANGED <<heap, assigned, rendered, lastOp>>

\* ProjectState.getInstance.
getInstance ==
    /\ IF instance # 0
       THEN UNCHANGED <<instance, constructed, projects, listeners>>
       ELSE NewProjectState
    /\ returned' = Append(returned, Handle(instance', projects', listeners'))
    /\ UNCHANGED <<heap, assigned, rendered, lastOp>>

\* State.addListener.
addListener(kind) ==
    /\ listeners' = Append(listeners, kind)
    /\ UNCHANGED <<heap, projects, assigned, rendered, lastOp>>

----------------------------------------------------------------------------
\* The form.  What the user has typed into #title, #description and #people
\* when the form is submitted.

Title == <<"A", "P", "I">>
Description == <<"D", "e", "s", "i", "g", "n">>
People == <<"3">>
Blank == <<" ">>
Empty == <<>>

FormInputs ==
    { <<Title, Description, People>>,
      <<Blank, Description, People>>,
      <<Empty, Empty, Empty>> }

\* ProjectInput.submitHandler.  clearInputs() empties the three fields; the
\* next submit reads what has been typed by then.
submitHandler(enteredTitle, enteredDescription, enteredPeople, rnd) ==
    LET userInput == gatherUserInput(enteredTitle, enteredDescription, enteredPeople)
    IN IF userInput.isArray
       THEN addProject(userInput.title, userInput.description, userInput.people, rnd)
       ELSE UNCHANGED storeVars

----------------------------------------------------------------------------
\* The drag gesture.  The platform runs one drag-and-drop operation at a
\* time, delivers dragover to the element under the pointer, dragleave when
\* the pointer leaves it, and drop only to an element whose last dragover
\* was default-prevented; it fires no other input events during the
\* operation.  drag.types and drag.plain are the DataTransfer's types list
\* and its text/plain data ("" when it has none).

PlainText == "text/plain"

IdleDrag ==
    [phase |-> "Idle", source |-> 0, types |-> <<>>, plain |-> "",
     effectAllowed |-> "uninitialized", over |-> "none", claimed |-> FALSE]

\* DataTransfer.setData(format, data) on the drag data store.
SetData(d, format, data) ==
    [d EXCEPT !.types = IF \E i \in 1 .. Len(@) : @[i] = format THEN @
                        ELSE Append(@, format),
              !.plain = IF format = PlainText THEN data ELSE @]

\* DataTransfer.getData(format).
GetData(d, format) ==
    IF format = PlainText /\ \E i \in 1 .. Len(d.types) : d.types[i] = PlainText
    THEN d.plain ELSE ""

\* ProjectItem.dragStartHandler, for the i-th item a column shows.
dragStartHandler(type, i) ==
    /\ variant = "part_000"
    /\ drag.phase = "Idle"
    /\ i \in 1 .. Len(rendered[type])
    /\ LET project == rendered[type][i].project
           started == [IdleDrag EXCEPT !.phase = "Dragging", !.source = project]
       IN drag' = [SetData(started, PlainText, heap[project].id)
                      EXCEPT !.effectAllowed = "move"]
    /\ UNCHANGED <<variant, droppable, singleton>>
    /\ UNCHANGED storeVars

\* A drag that starts outside the board (selected text, content of another
\* page or program) and enters the page with its own payload.
ForeignId == "nonexistent-id"

ForeignTypes == { <<"text/html">>, <<PlainText>>, <<"text/html", PlainText>> }

foreignDragStart(types) ==
    /\ variant = "part_000"
    /\ drag.phase = "Idle"
    /\ drag' = [IdleDrag EXCEPT !.phase = "Dragging", !.types = types,
                                !.plain = ForeignId]
    /\ UNCHANGED <<variant, droppable, singleton>>
    /\ UNCHANGED storeVars

\* The condition without the check of the payload's type.
AcceptsAnyDrag(d) == TRUE

\* The condition of dragOverHandler:
\*    event.dataTransfer && event.dataTransfer.types[0] == 'text/plain'
AcceptsDrag(d) == d.types # <<>> /\ d.types[1] = PlainText

\* ProjectList.dragOverHandler of the column of the given type.
dragOverHandler(type) ==
    /\ variant = "part_000"
    /\ drag.phase \in {"Dragging", "Hovering"}
    /\ drag.over \in {"none", type}
    /\ IF AcceptsDrag(drag)
       THEN /\ drag' = [drag EXCEPT !.phase = "Hovering", !.over = type,
                                    !.claimed = TRUE]
            /\ droppable' = [droppable EXCEPT ![type] = TRUE]
       ELSE /\ drag' = [drag EXCEPT !.phase = "Hovering", !.over = type,
                                    !.claimed = FALSE]
            /\ UNCHANGED droppable
    /\ UNCHANGED <<variant, singleton>>
    /\ UNCHANGED storeVars

\* listEl.classList.toggle('droppable') in the place of remove.
ClassListToggle(classes, type) == [classes EXCEPT ![type] = ~@]

\* listEl.classList.remove('droppable') on the column's list.
ClassListRemove(classes, type) == [classes EXCEPT ![type] = FALSE]

\* ProjectList.dragLeaveHandler.
dragLeaveHandler(type) ==
    /\ variant = "part_000"
    /\ drag.phase = "Hovering"
    /\ drag.over = type
    /\ droppable' = ClassListRemove(droppable, type)
    /\ drag' = [drag EXCEPT !.phase = "Dragging", !.over = "none",
                            !.claimed = FALSE]
    /\ UNCHANGED <<variant, singleton>>
    /\ UNCHANGED storeVars

\* ProjectList.dropHandler.
dropHandler(type) ==
    /\ variant = "part_000"
    /\ drag.phase = "Hovering"
    /\ drag.over = type
    /\ drag.claimed
    /\ LET prjId == GetData(drag, PlainText)
           dropType == IF type = "active" THEN Active ELSE Finished
       IN moveProject(prjId, dropType)
    /\ drag' = [drag EXCEPT !.phase = "Committed", !.over = "none",
                            !.claimed = FALSE]
    /\ UNCHANGED <<variant, droppable, singleton>>

\* ProjectItem.dragEndHandler: console.log(event).  The gesture is over.
dragEndHandler ==
    /\ variant = "part_000"
    /\ drag.phase \in {"Dragging", "Committed"}
    /\ drag.source # 0
    /\ drag' = IdleDrag
    /\ UNCHANGED <<variant, droppable, singleton>>
    /\ UNCHANGED storeVars

\* The end of a drag that started outside the board: no handler runs.
foreignDragEnd ==
    /\ variant = "part_000"
    /\ drag.phase \in {"Dragging", "Committed"}
    /\ drag.source = 0
    /\ drag' = IdleDrag
    /\ UNCHANGED <<variant, droppable, singleton>>
    /\ UNCHANGED storeVars

----------------------------------------------------------------------------
\* The board as shipped.  Init is the state after the script has run: the
\* store constructed, the form and the two columns constructed, each column
\* having registered its listener, nothing rendered yet.

EmptyColumns == [t \in ViewTypes |-> <<>>]

\* const projectState = ProjectState.getInstance(): the one call the script
\* makes, on an empty store.
Constructed ==
    /\ instance = 1
    /\ constructed = 1
    /\ returned = <<Handle(1, <<>>, <<>>)>>

Init ==
    /\ variant \in Variants
    /\ heap = <<>>
    /\ projects = <<>>
    /\ listeners = <<"active", "finished">>
    /\ assigned = EmptyColumns
    /\ rendered = EmptyColumns
    /\ droppable = [t \in ViewTypes |-> FALSE]
    /\ drag = IdleDrag
    /\ lastOp = NoOp
    /\ Constructed

Submit ==
    /\ drag.phase = "Idle"
    /\ Len(heap) < MaxProjects
    /\ \E input \in FormInputs, rnd \in MathRandom :
           submitHandler(input[1], input[2], input[3], rnd)
    /\ UNCHANGED <<variant, droppable, drag, singleton>>

DragStart == \E type \in ViewTypes, i \in 1 .. MaxProjects : dragStartHandler(type, i)

ForeignDragStart == \E types \in ForeignTypes : foreignDragStart(types)

DragOver == \E type \in ViewTypes : dragOverHandler(type)

DragLeave == \E type \in ViewTypes : dragLeaveHandler(type)

Drop == \E type \in ViewTypes : dropHandler(type)

Next ==
    \/ Submit
    \/ DragStart
    \/ ForeignDragStart
    \/ DragOver
    \/ DragLeave
    \/ Drop
    \/ dragEndHandler
    \/ foreignDragEnd

Spec == Init /\ [][Next]_vars

----------------------------------------------------------------------------
\* The store used directly by client code: any listener may be registered,
\* in any order, and addProject / moveProject are called with any arguments.

InitClient ==
    /\ variant \in Variants
    /\ heap = <<>>
    /\ projects = <<>>
    /\ listeners = <<>>
    /\ assigned = EmptyColumns
    /\ rendered = EmptyColumns
    /\ droppable = [t \in ViewTypes |-> FALSE]
    /\ drag = IdleDrag
    /\ lastOp = NoOp
    /\ Constructed

\* new ProjectList(type) registers that column's listener (once per column);
\* client code registers its own.  Listeners are registered at startup,
\* before the first store operation, as the board's own are.
ClientAddListener ==
    /\ Len(listeners) < MaxListeners
    /\ lastOp.op = "none"
    /\ \E kind \in ListenerKinds :
           /\ kind \in ViewTypes => \A i \in 1 .. Len(listeners) : listeners[i] # kind
           /\ addListener(kind)
    /\ UNCHANGED <<variant, droppable, drag, singleton>>

ClientAddProject ==
    /\ Len(heap) < MaxProjects
    /\ \E rnd \in MathRandom : addProject(Title, Description, ToNumber(People), rnd)
    /\ UNCHANGED <<variant, droppable, drag, singleton>>

\* The client moves projects by the ids the store holds.
ClientMoveProject ==
    /\ variant = "part_000"
    /\ \E i \in 1 .. Len(projects), newStatus \in ProjectStatus :
           moveProject(heap[projects[i]].id, newStatus)
    /\ UNCHANGED <<variant, droppable, drag, singleton>>

NextClient ==
    \/ ClientAddListener
    \/ ClientAddProject
    \/ ClientMoveProject

SpecClient == InitClient /\ [][NextClient]_vars

----------------------------------------------------------------------------
\* The store with listeners that fail or that register listeners from inside
\* a callback, next to the board's two.

FaultyAddListener ==
    /\ Len(listeners) < MaxListeners
    /\ lastOp.op = "none"
    /\ \E kind \in ViewTypes \cup FaultKinds :
           /\ kind \in ViewTypes => \A i \in 1 .. Len(listeners) : listeners[i] # kind
           /\ addListener(kind)
    /\ UNCHANGED <<variant, droppable, drag, singleton>>

NextFaulty ==
    \/ FaultyAddListener
    \/ ClientAddProject
    \/ ClientMoveProject

SpecFaulty == InitClient /\ [][NextFaulty]_vars

----------------------------------------------------------------------------
\* The singleton accessor used by client code: the state before the first
\* getInstance() call, then getInstance() calls in any number and at any
\* time, and the store used through what they return.

InitInstance ==
    /\ variant \in Variants
    /\ heap = <<>>
    /\ projects = <<>>
    /\ listeners = <<>>
    /\ assigned = EmptyColumns
    /\ rendered = EmptyColumns
    /\ droppable = [t \in ViewTypes |-> FALSE]
    /\ drag = IdleDrag
    /\ lastOp = NoOp
    /\ instance = 0
    /\ constructed = 0
    /\ returned = <<>>

GetInstance ==
    /\ Len(returned) < MaxGetInstance
    /\ getInstance
    /\ UNCHANGED <<variant, droppable, drag>>

\* new ProjectList(type), once per column, on the instance obtained.
InstanceAddListener ==
    /\ returned # <<>>
    /\ \E type \in ViewTypes :
           /\ \A i \in 1 .. Len(listeners) : listeners[i] # type
           /\ addListener(type)
    /\ UNCHANGED <<variant, droppable, drag, singleton>>

InstanceAddProject == returned # <<>> /\ ClientAddProject

InstanceMoveProject == returned # <<>> /\ ClientMoveProject

NextInstance ==
    \/ GetInstance
    \/ InstanceAddListener
    \/ InstanceAddProject
    \/ InstanceMoveProject

SpecInstance == InitInstance /\ [][NextInstance]_vars

----------------------------------------------------------------------------
\* Properties.

Items == Deref(heap, projects)

Store == <<heap, projects, listeners, assigned, rendered>>

HasId(projectId) == \E i \in 1 .. Len(projects) : heap[projects[i]].id = projectId

\* C1: the ids of the items the store holds are pairwise distinct, in every
\* reachable state and for both source variants.
C1_IdsPairwiseDistinct ==
    \A i, j \in 1 .. Len(projects) :
        i # j => heap[projects[i]].id # heap[projects[j]].id

\* The round of a store operation is complete: every listener registered at
\* the call was called exactly once, the k-th call going to the k-th
\* listener, each with an array equal to the store's array after the
\* mutation, in length, order and field values.
RoundComplete(op) ==
    /\ op.notified
    /\ Len(op.calls) = Len(op.registered)
    /\ \A k \in 1 .. Len(op.calls) :
           /\ op.calls[k].listener = k
           /\ op.calls[k].kind = op.registered[k]
           /\ op.calls[k].refs = op.afterRefs
           /\ op.calls[k].items = op.afterItems

\* C2: every step that changes the store's collection (an addProject, or a
\* moveProject that changes a status) has, when it returns, called every
\* listener registered before it exactly once with a snapshot equal to the
\* store's collection after the mutation.
C2_NotificationComplete ==
    [][(Deref(heap', projects') # Items)
          => /\ RoundComplete(lastOp')
             /\ lastOp'.registered = listeners
             /\ lastOp'.afterRefs = projects'
             /\ lastOp'.afterItems = Deref(heap', projects')]_vars

C2_Witness ==
    /\ lastOp.op = "moveProject"
    /\ lastOp.notified
    /\ Len(lastOp.calls) = 2
    /\ Len(projects) = 2
    /\ \E i \in 1 .. 2 : heap[projects[i]].status = Finished

\* C3: a moveProject with an id no item carries (a drop whose text/plain
\* data is no stored id) calls no listener and leaves the store's items,
\* their fields, their order and the columns unchanged.
C3_UnknownIdNoOp ==
    [][(Drop /\ ~HasId(GetData(drag, PlainText)))
          => /\ UNCHANGED Store
             /\ lastOp'.op = "moveProject"
             /\ lastOp'.found = 0
             /\ ~lastOp'.notified
             /\ lastOp'.calls = <<>>]_vars

C3_Witness ==
    /\ drag.phase = "Committed"
    /\ lastOp.op = "moveProject"
    /\ lastOp.id = ForeignId
    /\ lastOp.found = 0
    /\ Len(projects) > 0

\* C4: a moveProject(id, s) that finds its item already in status s calls
\* no listener and leaves the store unchanged; and a moveProject(id, s)
\* that directly follows a moveProject(id, s) calls no listener and leaves
\* the store as the first call left it.
C4_SameStatusNoOp ==
    [][\A type \in ViewTypes :
          LET projectId == GetData(drag, PlainText)
              project == Find(heap, projects, projectId)
              already == project # 0 /\ heap[project].status = TypeStatus(type)
              again == /\ lastOp.op = "moveProject"
                       /\ lastOp.id = projectId
                       /\ lastOp.status = TypeStatus(type)
          IN (dropHandler(type) /\ (already \/ again))
                => /\ UNCHANGED Store
                   /\ ~lastOp'.notified
                   /\ lastOp'.calls = <<>>]_vars

C4_Witness ==
    /\ lastOp.op = "moveProject"
    /\ lastOp.repeated
    /\ lastOp.found # 0
    /\ lastOp.status = Finished
    /\ ~lastOp.notified

\* C5: a listener that adds, removes or reorders elements of the array it
\* was passed changes neither the store's own array nor the array any other
\* listener is passed: after every round the store's array is the one the
\* mutation left, and every listener was passed an array with exactly those
\* elements in that order.
C5_SnapshotListIsolated ==
    lastOp.op # "none" =>
        /\ projects = lastOp.afterRefs
        /\ \A k \in 1 .. Len(lastOp.calls) : lastOp.calls[k].refs = lastOp.afterRefs

C5_Witness ==
    /\ lastOp.notified
    /\ Len(lastOp.afterRefs) = 2
    /\ Len(lastOp.calls) = 2
    /\ lastOp.calls[1].kind \in {"pop", "reverse", "push"}

\* C6: a listener that changes a field of an item in the array it was passed
\* changes neither the store's item nor the item any other listener is
\* passed: after every round the store's items have the field values the
\* mutation left, and every listener was passed items with those values.
C6_SnapshotItemsIsolated ==
    lastOp.op # "none" =>
        /\ Items = lastOp.afterItems
        /\ \A k \in 1 .. Len(lastOp.calls) : lastOp.calls[k].items = lastOp.afterItems

\* A column shows only projects of its own status.
ColumnOfStatus(type) ==
    /\ \A i \in 1 .. Len(assigned[type]) :
           heap[assigned[type][i]].status = TypeStatus(type)
    /\ \A i \in 1 .. Len(rendered[type]) :
           rendered[type][i].project # 0
               => heap[rendered[type][i].project].status = TypeStatus(type)

\* C7: whatever the interleaving of addProject and moveProject calls, the
\* 'active' column's assignedProjects holds no Finished project and the
\* 'finished' column's holds no Active project.
C7_FilterCorrect == \A type \in ViewTypes : ColumnOfStatus(type)

C7_Witness ==
    /\ lastOp.op = "moveProject"
    /\ lastOp.notified
    /\ Len(assigned["active"]) = 1
    /\ Len(assigned["finished"]) = 1

\* C8: in every round the listeners are called in the order of their
\* registration: the k-th call of the round goes to the k-th registered
\* listener.
C8_RegistrationOrder ==
    \A k \in 1 .. Len(lastOp.calls) :
        /\ lastOp.calls[k].listener = k
        /\ k <= Len(lastOp.registered)
        /\ lastOp.calls[k].kind = lastOp.registered[k]

C8_Witness ==
    /\ Len(lastOp.calls) = 2
    /\ lastOp.calls[1].kind # lastOp.calls[2].kind
    /\ lastOp.calls[1].kind = "finished"

HasType(d, format) == \E i \in 1 .. Len(d.types) : d.types[i] = format

\* C9: a gesture whose payload has no text/plain type never commits: while
\* it lasts no column claims the drop, no drop handler runs, moveProject is
\* not called, no listener is called and the store is unchanged.
C9_NonPlainNeverCommits ==
    [][(drag.phase # "Idle" /\ ~HasType(drag, PlainText))
          => /\ ~drag'.claimed
             /\ drag'.phase # "Committed"
             /\ ~Drop
             /\ UNCHANGED <<Store, lastOp>>]_vars

C9_Witness ==
    /\ drag.types = <<"text/html">>
    /\ drag.phase = "Hovering"
    /\ drag.over = "finished"
    /\ \E i \in 1 .. Len(projects) : heap[projects[i]].status = Active

\* C10: a drop of a project item on a column makes one moveProject(id, S)
\* call with S the column's status and id the identifier written at pickup;
\* after it the dragged item has status S; and a drop on the column the item
\* is already in changes nothing and calls no listener.
C10_DropMovesDraggedItem ==
    [][\A type \in ViewTypes :
          (dropHandler(type) /\ drag.source # 0)
             => /\ lastOp'.op = "moveProject"
                /\ lastOp'.id = heap[drag.source].id
                /\ lastOp'.status = TypeStatus(type)
                /\ heap'[drag.source].status = TypeStatus(type)
                /\ (heap[drag.source].status = TypeStatus(type)
                       => UNCHANGED Store /\ ~lastOp'.notified)]_vars

\* C11: at most one ProjectState is ever constructed; the first
\* getInstance() call constructs it, and every getInstance() call returns
\* that one instance, with the projects and listeners it holds untouched.
C11_SingleInstance ==
    /\ [](/\ constructed <= 1
          /\ (constructed = 0) = (returned = <<>>)
          /\ \A k \in 1 .. Len(returned) : returned[k].instance = 1)
    /\ [][(returned' # returned /\ returned # <<>>)
             => /\ UNCHANGED <<instance, constructed, projects, listeners>>
                /\ returned'[Len(returned')] =
                       Handle(instance, projects, listeners)]_vars

C11_Witness ==
    /\ Len(returned) = 2
    /\ returned[2].projects > 0
    /\ returned[2].listeners > 0
    /\ \E i \in 1 .. Len(projects) : heap[projects[i]].status = Finished

\* The constraints on a project's fields.
FieldsValid(p) ==
    /\ Len(Trim(p.title)) # 0
    /\ Len(p.description) >= MinDescription
    /\ Len(p.description) <= MaxDescription
    /\ p.numPeople >= MinPeople
    /\ p.numPeople <= MaxPeople

\* C12: every item that reached the store through the form's submit has a
\* title that is not blank, a description of 5 to 500 characters and a
\* people count of 2 to 50: a submit with any one field invalid is rejected
\* and does not call addProject.
C12_StoredItemsValid ==
    \A i \in 1 .. Len(projects) : FieldsValid(heap[projects[i]])

\* The first listener of the sequence that throws, 0 when none does.
FirstThrower(ls) ==
    IF \E k \in 1 .. Len(ls) : ls[k] = "throw"
    THEN CHOOSE k \in 1 .. Len(ls) :
             ls[k] = "throw" /\ \A j \in 1 .. (k - 1) : ls[j] # "throw"
    ELSE 0

\* C13: when a listener throws during a round the store does not catch it:
\* the addProject / moveProject call ends by that exception, and no
\* listener registered after the failing one is called in that round.
C13_ListenerFailurePropagates ==
    lastOp.notified =>
        LET k == FirstThrower(lastOp.registered)
        IN /\ lastOp.thrown = (k # 0)
           /\ k # 0 => /\ Len(lastOp.calls) = k
                       /\ lastOp.calls[k].kind = "throw"
                       /\ \A j \in 1 .. Len(lastOp.calls) : lastOp.calls[j].listener <= k

C13_Witness ==
    /\ lastOp.thrown
    /\ lastOp.registered = <<"throw", "active">>
    /\ Len(lastOp.calls) = 1
    /\ Len(projects) = 2

\* C14: a listener registered from inside a callback while a round is in
\* progress is not called in that round: every call of a round goes to a
\* listener that was registered when the round began.
C14_LateListenerWaits ==
    \A k \in 1 .. Len(lastOp.calls) :
        lastOp.calls[k].listener <= Len(lastOp.registered)

\* What the form hands to addProject for the inputs it accepts.
GivenFields ==
    { <<input[1], input[2], ToNumber(input[3])>> : input \in FormInputs }

\* C15: an addProject call appends exactly one new item, Active, at the end
\* of the store's array: the length grows by one, the new item is last and
\* has the given title, description and people count, and every item stored
\* before keeps its position and its field values.
C15_AddProjectAppends ==
    [][(lastOp' # lastOp /\ lastOp'.op = "addProject") =>
          /\ Len(projects') = Len(projects) + 1
          /\ \A i \in 1 .. Len(projects) :
                 /\ projects'[i] = projects[i]
                 /\ heap'[projects[i]] = heap[projects[i]]
          /\ LET ref == projects'[Len(projects')]
                 new == heap'[ref]
             IN /\ \A i \in 1 .. Len(projects) : projects[i] # ref
                /\ ref = lastOp'.found
                /\ new.status = Active
                /\ new.id = lastOp'.id
                /\ <<new.title, new.description, new.numPeople>> \in GivenFields]_vars

C15_Witness ==
    /\ lastOp.op = "addProject"
    /\ Len(projects) = 2
    /\ heap[projects[1]].status = Finished
    /\ heap[projects[2]].status = Active
    /\ heap[projects[2]].title = Title

\* C16: a moveProject call that changes a status changes nothing else: the
\* array holds the same references in the same order, the moved item keeps
\* its id, title, description and people count, and every other item is as
\* it was.
C16_MoveChangesStatusOnly ==
    [][(lastOp' # lastOp /\ lastOp'.op = "moveProject" /\ lastOp'.notified) =>
          /\ projects' = projects
          /\ Len(heap') = Len(heap)
          /\ \A ref \in 1 .. Len(heap) :
                 IF ref = lastOp'.found
                 THEN /\ heap[ref].id = lastOp'.id
                      /\ heap[ref].status # lastOp'.status
                      /\ heap'[ref] = [heap[ref] EXCEPT !.status = lastOp'.status]
                 ELSE heap'[ref] = heap[ref]]_vars

C16_Witness ==
    /\ lastOp.op = "moveProject"
    /\ lastOp.notified
    /\ Len(projects) = 2
    /\ lastOp.found = projects[1]
    /\ heap[projects[1]].status = Finished
    /\ heap[projects[2]].status = Active

\* C17: a column is highlighted only while a payload it accepts hovers over
\* it: when the gesture is Idle or Committed no column has the 'droppable'
\* class.
C17_HighlightOnlyWhileHovering ==
    drag.phase \in {"Idle", "Committed"} => \A type \in ViewTypes : ~droppable[type]

\* C18: the pickup, release, hover and leave handlers leave the store's
\* array, the items, the listeners and the columns as they were and call no
\* listener; the class removal of dragLeaveHandler done twice gives what it
\* gives done once.
C18_GestureHandlersLeaveStore ==
    /\ [](\A type \in ViewTypes :
              ClassListRemove(ClassListRemove(droppable, type), type)
                  = ClassListRemove(droppable, type))
    /\ [][(DragStart \/ dragEndHandler \/ DragOver \/ DragLeave)
             => UNCHANGED <<Store, lastOp>>]_vars

C18_Witness ==
    /\ drag.phase = "Hovering"
    /\ drag.claimed
    /\ drag.source # 0
    /\ droppable[drag.over]
    /\ heap[drag.source].status = Finished
    /\ Len(projects) = 2

\* C19: a column claims the drop exactly when the hovering payload has the
\* text/plain type among its types.
C19_ClaimsIffPlainText ==
    drag.phase = "Hovering" => (drag.claimed <=> HasType(drag, PlainText))

\* The place of a reference in the store's array, 0 when it is not there.
IndexOf(ref) ==
    IF \E i \in 1 .. Len(projects) : projects[i] = ref
    THEN CHOOSE i \in 1 .. Len(projects) : projects[i] = ref
    ELSE 0

\* C20: on the board, after every addProject and every moveProject that
\* changed a status, each stored item is in the assignedProjects of the
\* column of its status, once, and in no other column, and each column has
\* its items in the order the store has them.
C20_ColumnsPartitionStore ==
    /\ \A i \in 1 .. Len(projects), type \in ViewTypes :
           Cardinality({k \in 1 .. Len(assigned[type]) : assigned[type][k] = projects[i]})
               = IF heap[projects[i]].status = TypeStatus(type) THEN 1 ELSE 0
    /\ \A type \in ViewTypes :
           /\ \A k \in 1 .. Len(assigned[type]) : IndexOf(assigned[type][k]) # 0
           /\ \A k \in 1 .. (Len(assigned[type]) - 1) :
                  IndexOf(assigned[type][k]) < IndexOf(assigned[type][k + 1])

C20_Witness ==
    /\ lastOp.op = "moveProject"
    /\ lastOp.notified
    /\ Len(assigned["finished"]) = 2
    /\ lastOp.found = projects[1]

\* The place of a reference in a snapshot, 0 when it is not there.
SnapshotIndex(refs, ref) ==
    IF \E k \in 1 .. Len(refs) : refs[k] = ref
    THEN CHOOSE k \in 1 .. Len(refs) : refs[k] = ref
    ELSE 0

\* C21: a listener's exception does not undo the mutation.  After a round
\* that ended by an exception the store holds the array and the items the
\* operation made (the appended item last and Active, or the item with its
\* new status), and the snapshot of the next round has that item with that
\* mutation, unless the next operation is a move of the same item.
C21_FailureKeepsMutation ==
    /\ [](lastOp.thrown =>
             /\ projects = lastOp.afterRefs
             /\ Items = lastOp.afterItems
             /\ SnapshotIndex(projects, lastOp.found) # 0
             /\ heap[lastOp.found].id = lastOp.id
             /\ heap[lastOp.found].status = lastOp.status
             /\ lastOp.op = "addProject" => projects[Len(projects)] = lastOp.found)
    /\ [][(lastOp.thrown /\ lastOp' # lastOp /\ lastOp'.notified) =>
             /\ lastOp'.calls # <<>>
             /\ LET snapshot == lastOp'.calls[1]
                    k == SnapshotIndex(snapshot.refs, lastOp.found)
                IN /\ k # 0
                   /\ snapshot.items[k].id = lastOp.id
                   /\ snapshot.items[k].status =
                          IF lastOp'.found = lastOp.found THEN lastOp'.status
                          ELSE lastOp.status]_vars

C21_Witness ==
    /\ lastOp.thrown
    /\ lastOp.op = "moveProject"
    /\ Len(projects) = 2
    /\ lastOp.found = projects[1]
    /\ heap[projects[1]].status = Finished
    /\ heap[projects[2]].status = Active

====
